---- MODULE Spec2Model ----
(***************************************************************************)
(* Local (per finite element) contributions of the diffusion-class terms   *)
(* of sfepy/terms/extmods/termsLaplace.c: the three kernel builders and    *)
(* the eight term evaluators, over FMField buffers.                        *)
(*                                                                         *)
(* Numbers are integers: every input is a small integer, so every float64  *)
(* product and sum of the C code is exact and equals the integer result.   *)
(* A buffer is a record; its value array is kept flat per cell, indexed    *)
(* from 0, so that the pointer arithmetic of the C code is kept as it is.  *)
(***************************************************************************)
EXTENDS Integers, Sequences, FiniteSets, TLC

\* Largest batch (number of processed cells) and most quadrature points.
MaxCell == 2
MaxQP == 2

RET_OK == 0
RET_Fail == 1

\* What a read of memory the call never wrote may return: an
\* uninitialised scratch entry, or an entry past the end of a buffer.
GarbageVals == {0, 9}

RECURSIVE Sum(_, _)
\* f[0] + ... + f[n-1]: the accumulation loops of the C code.
Sum(f, n) == IF n = 0 THEN 0 ELSE Sum(f, n - 1) + f[n - 1]

(***************************************************************************)
(* FMField: nCell cells of nLev levels of nRow x nCol matrices; `cell` is  *)
(* the cursor (val = val0 + cell * cellSize).                              *)
(***************************************************************************)
MkField(nCell, nLev, nRow, nCol, v) ==
  [nCell |-> nCell, nLev |-> nLev, nRow |-> nRow, nCol |-> nCol, cell |-> 0,
   val |-> [c \in 0..(nCell - 1) |->
              [i \in 0..(nLev * nRow * nCol - 1) |-> v[c][i]]]]

\* A scratch buffer as fmf_createAlloc leaves it: allocated, never written.
fmf_createAlloc(nCell, nLev, nRow, nCol, m) ==
  MkField(nCell, nLev, nRow, nCol,
          [c \in 0..(nCell - 1) |-> [i \in 0..(nLev * nRow * nCol - 1) |-> m]])

CellSize(f) == f.nLev * f.nRow * f.nCol

FMF_SetCell(f, n) == [f EXCEPT !.cell = n]

\* The array the cursor points at.
FMF_PtrCurrent(f) == f.val[f.cell]

\* Offset of level q from the cursor.
FMF_PtrLevel(f, q) == q * f.nCol * f.nRow

\* The current cell's array replaced by d.
SetCurrent(f, d) == [f EXCEPT !.val[f.cell] = d]

\* Entry (r, c) of level q of the current cell; a buffer whose level count
\* differs from the q loop's supplies its current slice for every q.
Lev(f, nQ, q) == IF f.nLev = nQ THEN q ELSE 0
At(f, q, r, c) == FMF_PtrCurrent(f)[FMF_PtrLevel(f, q) + r * f.nCol + c]

(***************************************************************************)
(* The matrix primitive library (fmfield.c).                               *)
(***************************************************************************)
fmf_fillC(obj, v) == SetCurrent(obj, [i \in 0..(CellSize(obj) - 1) |-> v])

\* fmf_mulC( obj, 1.0 / a ): the inputs make a divide every entry, where
\* the float64 result is the exact quotient.
fmf_mulC_inv(obj, a) ==
  SetCurrent(obj, [i \in 0..(CellSize(obj) - 1) |->
                     FMF_PtrCurrent(obj)[i] \div a])

\* out[q] = a[q] * val[q], val one scalar per level.
fmf_mulAF(out, a, val) ==
  SetCurrent(out, [i \in 0..(CellSize(out) - 1) |->
                     FMF_PtrCurrent(a)[i] * val[i \div (out.nRow * out.nCol)]])

\* out = Sum_q in[q] * val[q]; out is set, not added to.
fmf_sumLevelsMulF(out, in, val) ==
  SetCurrent(out, [i \in 0..(out.nRow * out.nCol - 1) |->
     Sum([q \in 0..(in.nLev - 1) |->
            val[q] * FMF_PtrCurrent(in)[FMF_PtrLevel(in, q) + i]], in.nLev)])

\* A product whose shapes do not fit is a fault: nothing is computed.
BadMatch(out, A, B, tA, tB) ==
  LET ra == IF tA THEN A.nCol ELSE A.nRow
      ca == IF tA THEN A.nRow ELSE A.nCol
      rb == IF tB THEN B.nCol ELSE B.nRow
      cb == IF tB THEN B.nRow ELSE B.nCol
  IN \/ out.nRow # ra
     \/ out.nCol # cb
     \/ ca # rb
     \/ A.nLev \notin {out.nLev, 1}
     \/ B.nLev \notin {out.nLev, 1}

\* out[q] = op(A)[q] * op(B)[q], op the transposition when tA / tB.
MulLevels(out, A, B, tA, tB) ==
  IF BadMatch(out, A, B, tA, tB) THEN out ELSE
  LET K == IF tA THEN A.nRow ELSE A.nCol
      a(q, r, k) == IF tA THEN At(A, Lev(A, out.nLev, q), k, r)
                          ELSE At(A, Lev(A, out.nLev, q), r, k)
      b(q, k, c) == IF tB THEN At(B, Lev(B, out.nLev, q), c, k)
                          ELSE At(B, Lev(B, out.nLev, q), k, c)
      sz == out.nRow * out.nCol
  IN SetCurrent(out, [i \in 0..(CellSize(out) - 1) |->
       LET q == i \div sz
           r == (i % sz) \div out.nCol
           c == (i % sz) % out.nCol
       IN Sum([k \in 0..(K - 1) |-> a(q, r, k) * b(q, k, c)], K)])

fmf_mulAB_nn(out, A, B) == MulLevels(out, A, B, FALSE, FALSE)
fmf_mulATB_nn(out, A, B) == MulLevels(out, A, B, TRUE, FALSE)
fmf_mulATBT_nn(out, A, B) == MulLevels(out, A, B, TRUE, TRUE)
fmf_mulAB_n1(out, A, B) == MulLevels(out, A, B, FALSE, FALSE)
fmf_mulATB_1n(out, A, B) == MulLevels(out, A, B, TRUE, FALSE)

\* st[k] = state value of the k-th node of the element (dpn = 1).
ele_extractNodalValuesNBN(st, state, off, connRow) ==
  SetCurrent(st, [k \in 0..(st.nRow - 1) |->
                    FMF_PtrCurrent(state)[off + connRow[k]]])

(***************************************************************************)
(* Kernel builders.  Each returns the buffer it wrote, its status and      *)
(* whether errput raised the error flag.                                   *)
(***************************************************************************)
\* GtgEntry with pg2[ir] * pg1[ic] for its second term.
GtgEntryTypo(gc, dim, iqp, ir, ic) ==
  LET g == FMF_PtrCurrent(gc)
      p == FMF_PtrLevel(gc, iqp)
      nEP == gc.nCol
  IN Sum([d \in 0..(dim - 1) |->
            g[p + d * nEP + ir] * g[p + (IF d = 1 THEN 0 ELSE d) * nEP + ic]],
         dim)

\* Entry (ir, ic) of G^T G at level iqp: pg1[ir]*pg1[ic] + pg2[ir]*pg2[ic]
\* (+ pg3[ir]*pg3[ic]), pgD = level pointer + D * nEP.
GtgEntry(gc, dim, iqp, ir, ic) ==
  LET g == FMF_PtrCurrent(gc)
      p == FMF_PtrLevel(gc, iqp)
      nEP == gc.nCol
  IN Sum([d \in 0..(dim - 1) |->
            g[p + d * nEP + ir] * g[p + d * nEP + ic]], dim)

laplace_build_gtg(out, gc) ==
  LET nEP == gc.nCol
      nQP == gc.nLev
      nCol == out.nCol
      zero == fmf_fillC(out, 0)
      lsz == out.nRow * out.nCol
      written(i) == /\ i \div lsz < nQP
                    /\ (i % lsz) \div nCol < nEP
                    /\ (i % lsz) % nCol < nEP
  IN IF gc.nRow \in {2, 3}
     THEN [out |-> SetCurrent(zero, [i \in 0..(CellSize(out) - 1) |->
                     IF written(i)
                     THEN GtgEntry(gc, gc.nRow, i \div lsz,
                                   (i % lsz) \div nCol, (i % lsz) % nCol)
                     ELSE 0]),
           ret |-> RET_OK, err |-> 0]
     ELSE [out |-> zero, ret |-> RET_Fail, err |-> 1]

\* The address the d-th value of column ic is stored at, from the level
\* pointer: pout[ic+0], pout[ic+1], pout[ic+2].
ActGmAddr(ic, d, nCol) == ic + d

RECURSIVE ActGmCols(_, _, _, _, _, _)
\* The loop over ic of one level: columns ic..nCol-1 stored in turn into d.
ActGmCols(d, gc, mtx, pout, iqp, ic) ==
  LET nEP == gc.nCol
      nCol == mtx.nCol
      g == FMF_PtrCurrent(gc)
      m == FMF_PtrCurrent(mtx)
      pg == FMF_PtrLevel(gc, iqp)
      pmtx == IF mtx.nLev = gc.nLev THEN FMF_PtrLevel(mtx, iqp) ELSE 0
      v(r) == Sum([ik \in 0..(nEP - 1) |->
                     g[pg + r * nEP + ik] * m[pmtx + ic + nCol * ik]], nEP)
      addr(r) == pout + ActGmAddr(ic, r, nCol)
      d1 == [i \in DOMAIN d |->
               IF \E r \in 0..(gc.nRow - 1) : addr(r) = i
               THEN v(CHOOSE r \in 0..(gc.nRow - 1) : addr(r) = i)
               ELSE d[i]]
  IN IF ic >= nCol THEN d ELSE ActGmCols(d1, gc, mtx, pout, iqp, ic + 1)

RECURSIVE ActGmLevels(_, _, _, _, _)
ActGmLevels(d, out, gc, mtx, iqp) ==
  IF iqp >= gc.nLev THEN d
  ELSE ActGmLevels(ActGmCols(d, gc, mtx, FMF_PtrLevel(out, iqp), iqp, 0),
                   out, gc, mtx, iqp + 1)

laplace_act_g_m(out, gc, mtx) ==
  IF gc.nRow \in {2, 3}
  THEN [out |-> SetCurrent(out, ActGmLevels(FMF_PtrCurrent(out), out, gc, mtx, 0)),
        ret |-> RET_OK, err |-> 0]
  ELSE [out |-> out, ret |-> RET_Fail, err |-> 1]

laplace_act_gt_m(out, gc, mtx) ==
  LET nEP == gc.nCol
      nQP == gc.nLev
      nCol == mtx.nCol
      g == FMF_PtrCurrent(gc)
      m == FMF_PtrCurrent(mtx)
      lsz == out.nRow * out.nCol
      written(i) == /\ i \div lsz < nQP
                    /\ (i % lsz) \div nCol < nEP
      val(iqp, iep, k) ==
        Sum([d \in 0..(gc.nRow - 1) |->
               g[FMF_PtrLevel(gc, iqp) + d * nEP + iep]
               * m[FMF_PtrLevel(mtx, iqp) + d * nCol + k]], gc.nRow)
  IN IF gc.nRow \in {2, 3}
     THEN [out |-> SetCurrent(out, [i \in 0..(CellSize(out) - 1) |->
                     IF written(i)
                     THEN val(i \div lsz, (i % lsz) \div nCol, (i % lsz) % nCol)
                     ELSE FMF_PtrCurrent(out)[i]]),
           ret |-> RET_OK, err |-> 0]
     ELSE [out |-> out, ret |-> RET_Fail, err |-> 1]

(***************************************************************************)
(* Term evaluators.  X_alloc is the set of scratch buffers X creates,      *)
(* X_iter one pass of its cell loop up to ERR_CheckGo, X_free the buffers  *)
(* released after end_label, in order.  `a` holds the arguments, `m` what  *)
(* uninitialised memory reads as.  An iteration returns the output buffer, *)
(* the coefficient buffer as it left its cursor, and the error flag.       *)
(***************************************************************************)
\* SetCellBroadcast without the FMF_SetCell: the cursor stays where it is.
SetCellBroadcastNever(coef, ii) == coef

\* if (coef->nCell > 1) FMF_SetCell( coef, ii );
SetCellBroadcast(coef, ii) ==
  IF coef.nCell > 1 THEN FMF_SetCell(coef, ii) ELSE coef

nQPof(a) == a.bfGM.nLev
dimOf(a) == a.bfGM.nRow
nEPof(a) == a.bfGM.nCol

dw_laplace_alloc(a) == IF a.isDiff # 0 THEN {"gtg"} ELSE {"gtgu"}

\* What fmf_createAlloc hands to dw_laplace.
dw_laplace_scratch(a, m) ==
  IF a.isDiff # 0
  THEN fmf_createAlloc(1, nQPof(a), nEPof(a), nEPof(a), m)
  ELSE fmf_createAlloc(1, nQPof(a), nEPof(a), 1, m)

\* Lines 229-237 / 240-242: the cursors, the kernel builder (its status is
\* not looked at) and the scaling by the coefficient, all into the scratch.
dw_laplace_kernel(out, a, ii, scr) ==
  LET G == FMF_SetCell(a.bfGM, ii)
      coef == SetCellBroadcast(a.coef, ii)
      r == IF a.isDiff # 0
           THEN laplace_build_gtg(scr, G)
           ELSE laplace_act_gt_m(scr, G, FMF_SetCell(a.grad, ii))
  IN [out |-> FMF_SetCell(out, ii),
      scr |-> fmf_mulAF(r.out, r.out, FMF_PtrCurrent(coef)),
      coef |-> coef,
      err |-> r.err]

\* Lines 238 / 243: the weighted sum over the levels, into the output.
dw_laplace_reduce(out, a, ii, scr) ==
  fmf_sumLevelsMulF(out, scr, FMF_PtrCurrent(FMF_SetCell(a.det, ii)))

dw_laplace_iter(out, a, ii, scr) ==
  LET k == dw_laplace_kernel(out, a, ii, scr)
  IN [out |-> dw_laplace_reduce(k.out, a, ii, k.scr), scr |-> k.scr,
      coef |-> k.coef, err |-> k.err]

dw_laplace_free(a) == IF a.isDiff # 0 THEN <<"gtg">> ELSE <<"gtgu">>

d_laplace_alloc(a) == {"dgp2", "gp1tdgp2"}

\* d_laplace_iter with gradP1 scaled in place of gradP2.
d_laplace_iterSame(out, a, ii, m) ==
  LET nQP == nQPof(a)
      det == FMF_SetCell(a.det, ii)
      gradP1 == FMF_SetCell(a.gradP1, ii)
      coef == SetCellBroadcast(a.coef, ii)
      dgp2 == fmf_mulAF(fmf_createAlloc(1, nQP, dimOf(a), 1, m), gradP1,
                        FMF_PtrCurrent(coef))
      gp1tdgp2 == fmf_mulATB_nn(fmf_createAlloc(1, nQP, 1, 1, m), gradP1, dgp2)
  IN [out |-> fmf_sumLevelsMulF(FMF_SetCell(out, ii), gp1tdgp2,
                                FMF_PtrCurrent(det)),
      coef |-> coef,
      err |-> IF BadMatch(fmf_createAlloc(1, nQP, 1, 1, m), gradP1, dgp2,
                          TRUE, FALSE) THEN 1 ELSE 0]

d_laplace_iter(out, a, ii, m) ==
  LET nQP == nQPof(a)
      det == FMF_SetCell(a.det, ii)
      gradP1 == FMF_SetCell(a.gradP1, ii)
      gradP2 == FMF_SetCell(a.gradP2, ii)
      coef == SetCellBroadcast(a.coef, ii)
      dgp2 == fmf_mulAF(fmf_createAlloc(1, nQP, dimOf(a), 1, m), gradP2,
                        FMF_PtrCurrent(coef))
      gp1tdgp2 == fmf_mulATB_nn(fmf_createAlloc(1, nQP, 1, 1, m), gradP1, dgp2)
  IN [out |-> fmf_sumLevelsMulF(FMF_SetCell(out, ii), gp1tdgp2,
                                FMF_PtrCurrent(det)),
      coef |-> coef,
      err |-> IF BadMatch(fmf_createAlloc(1, nQP, 1, 1, m), gradP1, dgp2,
                          TRUE, FALSE) THEN 1 ELSE 0]

d_laplace_free(a) == <<"dgp2", "gp1tdgp2">>

dw_diffusion_alloc(a) ==
  IF a.isDiff # 0 THEN {"gtd", "gtdg"} ELSE {"dgp", "gtdgp"}

dw_diffusion_iter(out, a, ii, m) ==
  LET nQP == nQPof(a)
      nEP == nEPof(a)
      dim == dimOf(a)
      G == FMF_SetCell(a.bfGM, ii)
      det == FMF_SetCell(a.det, ii)
      mtxD == SetCellBroadcast(a.coef, ii)
      gtd0 == fmf_createAlloc(1, nQP, nEP, dim, m)
      gtdg0 == fmf_createAlloc(1, nQP, nEP, nEP, m)
      gtd == fmf_mulATB_nn(gtd0, G, mtxD)
      gtdg == fmf_mulAB_nn(gtdg0, gtd, G)
      grad == FMF_SetCell(a.grad, ii)
      dgp0 == fmf_createAlloc(1, nQP, dim, 1, m)
      gtdgp0 == fmf_createAlloc(1, nQP, nEP, 1, m)
      dgp == fmf_mulAB_nn(dgp0, mtxD, grad)
      gtdgp == fmf_mulATB_nn(gtdgp0, G, dgp)
      o == FMF_SetCell(out, ii)
  IN IF a.isDiff # 0
     THEN [out |-> fmf_sumLevelsMulF(o, gtdg, FMF_PtrCurrent(det)),
           coef |-> mtxD,
           err |-> IF \/ BadMatch(gtd0, G, mtxD, TRUE, FALSE)
                      \/ BadMatch(gtdg0, gtd, G, FALSE, FALSE) THEN 1 ELSE 0]
     ELSE [out |-> fmf_sumLevelsMulF(o, gtdgp, FMF_PtrCurrent(det)),
           coef |-> mtxD,
           err |-> IF \/ BadMatch(dgp0, mtxD, grad, FALSE, FALSE)
                      \/ BadMatch(gtdgp0, G, dgp, TRUE, FALSE) THEN 1 ELSE 0]

dw_diffusion_free(a) ==
  IF a.isDiff # 0 THEN <<"gtd", "gtdg">> ELSE <<"dgp", "gtdgp">>

d_diffusion_alloc(a) == {"dgp2", "gp1tdgp2"}

d_diffusion_iter(out, a, ii, m) ==
  LET nQP == nQPof(a)
      det == FMF_SetCell(a.det, ii)
      gradP1 == FMF_SetCell(a.gradP1, ii)
      gradP2 == FMF_SetCell(a.gradP2, ii)
      mtxD == SetCellBroadcast(a.coef, ii)
      dgp20 == fmf_createAlloc(1, nQP, dimOf(a), 1, m)
      gp0 == fmf_createAlloc(1, nQP, 1, 1, m)
      dgp2 == fmf_mulAB_nn(dgp20, mtxD, gradP2)
      gp1tdgp2 == fmf_mulATB_nn(gp0, gradP1, dgp2)
  IN [out |-> fmf_sumLevelsMulF(FMF_SetCell(out, ii), gp1tdgp2,
                                FMF_PtrCurrent(det)),
      coef |-> mtxD,
      err |-> IF \/ BadMatch(dgp20, mtxD, gradP2, FALSE, FALSE)
                 \/ BadMatch(gp0, gradP1, dgp2, TRUE, FALSE) THEN 1 ELSE 0]

d_diffusion_free(a) == <<"dgp2", "gp1tdgp2">>

dw_permeability_r_alloc(a) == {"gtd"}

dw_permeability_r_iter(out, a, ii, m) ==
  LET G == FMF_SetCell(a.bfGM, ii)
      det == FMF_SetCell(a.det, ii)
      mtxD == SetCellBroadcast(a.coef, ii)
      gtd0 == fmf_createAlloc(1, nQPof(a), nEPof(a), 1, m)
      gtd == fmf_mulATB_nn(gtd0, G, mtxD)
  IN [out |-> fmf_sumLevelsMulF(FMF_SetCell(out, ii), gtd, FMF_PtrCurrent(det)),
      coef |-> mtxD,
      err |-> IF BadMatch(gtd0, G, mtxD, TRUE, FALSE) THEN 1 ELSE 0]

dw_permeability_r_free(a) == <<"gtd">>

\* conn + nEP * iel: the connectivity row of element iel.
ConnRow(a, iel) == [k \in 0..(a.nEP - 1) |-> a.conn[a.nEP * iel + k]]

dw_diffusion_coupling_alloc(a) ==
  IF a.isDiff # 0 THEN {"gtd", "gtdg"} ELSE {"gp", "dgp", "st", "gtdgp"}

\* dw_diffusion_coupling_iter in matrix mode with the test on mode left
\* out: the mode <= 0 product in either mode.
dw_diffusion_coupling_iterNoMode(out, a, ii, m) ==
  LET nQP == nQPof(a)
      iel == a.elList[ii]
      G == FMF_SetCell(a.bfGM, iel)
      det == FMF_SetCell(a.det, iel)
      mtxD == SetCellBroadcast(a.coef, ii)
      gtd0 == fmf_createAlloc(1, nQP, a.nEP, 1, m)
      gtdg0 == fmf_createAlloc(1, nQP, a.nEP, a.nEP, m)
      gtd == fmf_mulATB_nn(gtd0, G, mtxD)
      gtdg == fmf_mulAB_nn(gtdg0, gtd, a.bf)
  IN [out |-> fmf_sumLevelsMulF(FMF_SetCell(out, ii), gtdg, FMF_PtrCurrent(det)),
      coef |-> mtxD,
      err |-> IF \/ BadMatch(gtd0, G, mtxD, TRUE, FALSE)
                 \/ BadMatch(gtdg0, gtd, a.bf, FALSE, FALSE) THEN 1 ELSE 0]

dw_diffusion_coupling_iter(out, a, ii, m) ==
  LET nQP == nQPof(a)
      dim == dimOf(a)
      iel == a.elList[ii]
      o == FMF_SetCell(out, ii)
      G == FMF_SetCell(a.bfGM, iel)
      det == FMF_SetCell(a.det, iel)
      mtxD == SetCellBroadcast(a.coef, ii)
      \* isDiff
      gtd0 == fmf_createAlloc(1, nQP, a.nEP, 1, m)
      gtdg0 == fmf_createAlloc(1, nQP, a.nEP, a.nEP, m)
      gtd == fmf_mulATB_nn(gtd0, G, mtxD)
      gtdg == IF a.mode > 0 THEN fmf_mulATBT_nn(gtdg0, a.bf, gtd)
                            ELSE fmf_mulAB_nn(gtdg0, gtd, a.bf)
      errD == \/ BadMatch(gtd0, G, mtxD, TRUE, FALSE)
              \/ IF a.mode > 0 THEN BadMatch(gtdg0, a.bf, gtd, TRUE, TRUE)
                               ELSE BadMatch(gtdg0, gtd, a.bf, FALSE, FALSE)
      \* residual
      st == ele_extractNodalValuesNBN(fmf_createAlloc(1, 1, a.nEP, 1, m),
                                      a.state, a.offset, ConnRow(a, iel))
      gp0 == IF a.mode > 0 THEN fmf_createAlloc(1, nQP, dim, 1, m)
                           ELSE fmf_createAlloc(1, nQP, 1, 1, m)
      dgp0 == IF a.mode > 0 THEN fmf_createAlloc(1, nQP, 1, 1, m)
                            ELSE fmf_createAlloc(1, nQP, dim, 1, m)
      gtdgp0 == fmf_createAlloc(1, nQP, a.nEP, 1, m)
      gp == IF a.mode > 0 THEN fmf_mulAB_n1(gp0, G, st)
                          ELSE fmf_mulAB_n1(gp0, a.bf, st)
      dgp == IF a.mode > 0 THEN fmf_mulATB_nn(dgp0, mtxD, gp)
                           ELSE fmf_mulAB_nn(dgp0, mtxD, gp)
      gtdgp == IF a.mode > 0 THEN fmf_mulATB_nn(gtdgp0, a.bf, dgp)
                             ELSE fmf_mulATB_nn(gtdgp0, G, dgp)
      errR == IF a.mode > 0
              THEN \/ BadMatch(gp0, G, st, FALSE, FALSE)
                   \/ BadMatch(dgp0, mtxD, gp, TRUE, FALSE)
                   \/ BadMatch(gtdgp0, a.bf, dgp, TRUE, FALSE)
              ELSE \/ BadMatch(gp0, a.bf, st, FALSE, FALSE)
                   \/ BadMatch(dgp0, mtxD, gp, FALSE, FALSE)
                   \/ BadMatch(gtdgp0, G, dgp, TRUE, FALSE)
  IN IF a.isDiff # 0
     THEN [out |-> fmf_sumLevelsMulF(o, gtdg, FMF_PtrCurrent(det)),
           coef |-> mtxD, err |-> IF errD THEN 1 ELSE 0]
     ELSE [out |-> fmf_sumLevelsMulF(o, gtdgp, FMF_PtrCurrent(det)),
           coef |-> mtxD, err |-> IF errR THEN 1 ELSE 0]

\* dw_diffusion_coupling_free without the release of st.
dw_diffusion_coupling_freeNoSt(a) ==
  IF a.isDiff # 0 THEN <<"gtd", "gtdg">> ELSE <<"gp", "dgp", "gtdgp">>

dw_diffusion_coupling_free(a) ==
  IF a.isDiff # 0 THEN <<"gtd", "gtdg">> ELSE <<"st", "gp", "dgp", "gtdgp">>

d_diffusion_coupling_alloc(a) == {"aux1", "aux2", "aux3", "aux4", "st"}

d_diffusion_coupling_iter(out, a, ii, m) ==
  LET nQP == nQPof(a)
      dim == dimOf(a)
      iel == a.elList[ii]
      G == FMF_SetCell(a.bfGM, iel)
      det == FMF_SetCell(a.det, iel)
      mtxD == SetCellBroadcast(a.coef, ii)
      aux10 == fmf_createAlloc(1, nQP, dim, 1, m)
      aux20 == fmf_createAlloc(1, nQP, 1, 1, m)
      aux30 == fmf_createAlloc(1, nQP, a.nEP, 1, m)
      aux40 == fmf_createAlloc(1, nQP, 1, 1, m)
      st0 == fmf_createAlloc(1, 1, a.nEP, 1, m)
      stP == ele_extractNodalValuesNBN(st0, a.state, 0, ConnRow(a, iel))
      \* mode > 0
      aux2p == fmf_mulAB_n1(aux20, G, stP)
      aux1p == fmf_mulATB_nn(aux10, mtxD, aux2p)
      aux3p == fmf_mulATB_nn(aux30, a.bf, aux1p)
      errP == \/ BadMatch(aux20, G, stP, FALSE, FALSE)
              \/ BadMatch(aux10, mtxD, aux2p, TRUE, FALSE)
              \/ BadMatch(aux30, a.bf, aux1p, TRUE, FALSE)
      \* mode <= 0
      aux1n == fmf_mulAB_n1(aux10, a.bf, stP)
      aux2n == fmf_mulAB_nn(aux20, mtxD, aux1n)
      aux3n == fmf_mulATB_nn(aux30, G, aux2n)
      errN == \/ BadMatch(aux10, a.bf, stP, FALSE, FALSE)
              \/ BadMatch(aux20, mtxD, aux1n, FALSE, FALSE)
              \/ BadMatch(aux30, G, aux2n, TRUE, FALSE)
      aux3 == IF a.mode > 0 THEN aux3p ELSE aux3n
      stQ == ele_extractNodalValuesNBN(stP, a.stateQ, 0, ConnRow(a, iel))
      aux4 == fmf_mulATB_1n(aux40, stQ, aux3)
      err == \/ IF a.mode > 0 THEN errP ELSE errN
             \/ BadMatch(aux40, stQ, aux3, TRUE, FALSE)
  IN [out |-> fmf_sumLevelsMulF(FMF_SetCell(out, ii), aux4, FMF_PtrCurrent(det)),
      coef |-> mtxD, err |-> IF err THEN 1 ELSE 0]

d_diffusion_coupling_free(a) == <<"st", "aux1", "aux2", "aux3", "aux4">>

d_surface_flux_alloc(a) == {"dgp", "ntdgp"}

\* FMF_SetCell on a buffer of nCell cells: past the last cell the cursor
\* points at memory that is not the buffer's, which reads as m.
SetCellRaw(f, n, m) ==
  IF n < f.nCell THEN FMF_SetCell(f, n)
  ELSE [f EXCEPT !.cell = n,
                 !.val = [c \in {n} |-> [i \in 0..(CellSize(f) - 1) |-> m]]]

d_surface_flux_iter(out, a, ii, m) ==
  LET nQP == a.normal.nLev
      dim == a.normal.nRow
      grad == FMF_SetCell(a.grad, ii)
      mtxD == SetCellRaw(a.coef, ii, m)
      normal == FMF_SetCell(a.normal, ii)
      det == FMF_SetCell(a.det, ii)
      dgp0 == fmf_createAlloc(1, nQP, dim, 1, m)
      ntdgp0 == fmf_createAlloc(1, nQP, 1, 1, m)
      dgp == fmf_mulAB_nn(dgp0, mtxD, grad)
      ntdgp == fmf_mulATB_nn(ntdgp0, normal, dgp)
      total == fmf_sumLevelsMulF(FMF_SetCell(out, ii), ntdgp, FMF_PtrCurrent(det))
      area == FMF_SetCell(a.area, ii)
  IN [out |-> IF a.mode = 1
              THEN fmf_mulC_inv(total, FMF_PtrCurrent(area)[0])
              ELSE total,
      coef |-> [a.coef EXCEPT !.cell = ii],
      err |-> IF \/ BadMatch(dgp0, mtxD, grad, FALSE, FALSE)
                 \/ BadMatch(ntdgp0, normal, dgp, TRUE, FALSE) THEN 1 ELSE 0]

d_surface_flux_free(a) == <<"dgp", "ntdgp">>

(***************************************************************************)
(* The calls.  A call is a record of the arguments; its buffers are filled *)
(* from Sample, a fixed table of small integers of both signs.             *)
(***************************************************************************)
Sample(s, i) == (((s + 2) * (i + 1) * (i + 3) + s * s + i) % 7) - 3

Gen(nCell, nLev, nRow, nCol, s) ==
  MkField(nCell, nLev, nRow, nCol,
          [c \in 0..(nCell - 1) |->
             [i \in 0..(nLev * nRow * nCol - 1) |-> Sample(s + 2 * c, i)]])

NilField == MkField(0, 0, 0, 0, <<>>)

\* Jacobian determinants and scalar coefficients per (cell, level): all
\* positive for selector 0, of both signs for selector 1.
DetVal(s, c, q) == IF s = 0 THEN 1 + c + 2 * q ELSE 3 - 2 * c - 4 * q
CoefVal(s, c, q) == IF s = 0 THEN 2 + c + q ELSE 1 + q - 3 * c
AreaVal(c) == IF c % 2 = 0 THEN 2 ELSE 1

\* Nodal values of cell c.
NodalVec(s, c, nEP) == [k \in 0..(nEP - 1) |-> Sample(s + c, k)]

\* The gradient field G * w per cell and level, w the cell's nodal values.
GradOf(G, nB, s) ==
  MkField(nB, G.nLev, G.nRow, 1,
    [c \in 0..(nB - 1) |->
       [i \in 0..(G.nLev * G.nRow - 1) |->
          Sum([k \in 0..(G.nCol - 1) |->
                 G.val[c][i * G.nCol + k] * NodalVec(s, c, G.nCol)[k]],
              G.nCol)]])

Evaluators ==
  {"dw_laplace", "d_laplace", "dw_diffusion", "d_diffusion",
   "dw_permeability_r", "dw_diffusion_coupling", "d_diffusion_coupling",
   "d_surface_flux"}
Kernels == {"laplace_build_gtg", "laplace_act_g_m"}
Coupling == {"dw_diffusion_coupling", "d_diffusion_coupling"}
ScalarCoef == {"dw_laplace", "d_laplace"}
TensorCoef == {"dw_diffusion", "d_diffusion", "d_surface_flux"}

\* Content of the output buffer before the call: whatever it held.
Stale(nCell, nLev, nRow, nCol, s) ==
  MkField(nCell, nLev, nRow, nCol,
          [c \in 0..(nCell - 1) |->
             [i \in 0..(nLev * nRow * nCol - 1) |-> 7 + s + c + i]])

MkArgs(fn, isDiff, mode, dim, nQP, nB, cc, nCol, mLev, sel) ==
  LET nEP == dim + 1
      nEl == IF fn \in Coupling THEN nB + 1
             ELSE IF fn \in Kernels THEN 1 ELSE nB
      G == Gen(nEl, nQP, dim, nEP, sel.g)
      off == IF fn = "dw_diffusion_coupling" THEN 1 ELSE 0
      nDof == off + nEl + nEP
  IN [fn |-> fn, isDiff |-> isDiff, mode |-> mode, nB |-> nB, nEP |-> nEP,
      bfGM |-> G,
      det |-> MkField(nEl, nQP, 1, 1,
                [c \in 0..(nEl - 1) |-> [q \in 0..(nQP - 1) |->
                   IF fn = "d_surface_flux" THEN 2 * DetVal(sel.d, c, q)
                                            ELSE DetVal(sel.d, c, q)]]),
      coef |-> IF fn \in ScalarCoef
               THEN MkField(cc, nQP, 1, 1,
                      [c \in 0..(cc - 1) |-> [q \in 0..(nQP - 1) |->
                         CoefVal(sel.c, c, q)]])
               ELSE IF fn \in TensorCoef
               THEN Gen(cc, nQP, dim, dim, sel.c + 1)
               ELSE Gen(cc, nQP, dim, 1, sel.c + 1),
      grad |-> Gen(nB, nQP, dim, 1, sel.f + 3),
      gradP1 |-> GradOf(G, nB, sel.f),
      gradP2 |-> GradOf(G, nB, sel.f + 4),
      vSel |-> sel.f, uSel |-> sel.f + 4,
      bf |-> Gen(1, nQP, 1, nEP, sel.f + 1),
      state |-> Gen(1, 1, nDof, 1, sel.f + 2),
      stateQ |-> Gen(1, 1, nDof, 1, sel.f + 5),
      offset |-> off,
      conn |-> [j \in 0..(nEl * nEP - 1) |-> (j \div nEP) + (j % nEP)],
      elList |-> [i \in 0..(nB - 1) |-> nEl - 1 - i],
      normal |-> Gen(nB, nQP, dim, 1, sel.g + 1),
      area |-> MkField(nB, 1, 1, 1,
                 [c \in 0..(nB - 1) |-> [i \in {0} |-> AreaVal(c)]]),
      mtx |-> Gen(1, mLev, nEP, nCol, sel.f)]

Selectors == [g : 0..1, c : 0..1, d : 0..1, f : 0..1]

\* Batch size and number of cells of the coefficient buffer: 1, or the batch.
Batches == {<<nB, cc>> \in (0..MaxCell) \X (1..MaxCell) : cc = 1 \/ cc = nB}

EvaluatorCalls ==
  {MkArgs(v[1], v[2], v[3], v[4], qb[1], qb[2][1], qb[2][2], 1, 1, sel) :
     v \in ({"dw_laplace"} \X {0, 1} \X {0} \X {1, 2, 3})
        \cup ({"dw_diffusion"} \X {0, 1} \X {0} \X {2, 3})
        \cup ({"d_laplace", "d_diffusion", "dw_permeability_r"}
                \X {0} \X {0} \X {2, 3})
        \cup ({"dw_diffusion_coupling"} \X {0, 1} \X {0, 1} \X {2, 3})
        \cup ({"d_diffusion_coupling", "d_surface_flux"}
                \X {0} \X {0, 1} \X {2, 3}),
     qb \in (1..MaxQP) \X Batches,
     sel \in Selectors}

KernelCalls ==
  {MkArgs(fn, 0, 0, dim, nQP, 1, 1, sh[1], IF sh[2] = 1 THEN 1 ELSE nQP, sel) :
     fn \in Kernels, dim \in {1, 2, 3}, nQP \in 1..MaxQP,
     sh \in {<<1, 0>>, <<2, 0>>, <<2, 1>>}, sel \in Selectors}

\* The output buffer the caller passes, still holding stale content s.
Out0(a, s) ==
  IF a.fn = "laplace_build_gtg"
  THEN Stale(1, nQPof(a), a.nEP, a.nEP, s)
  ELSE IF a.fn = "laplace_act_g_m"
  THEN Stale(1, nQPof(a), dimOf(a), a.mtx.nCol, s)
  ELSE IF a.fn \in {"d_laplace", "d_diffusion", "d_diffusion_coupling",
                    "d_surface_flux"}
  THEN Stale(a.nB, 1, 1, 1, s)
  ELSE IF a.isDiff # 0 /\ a.fn # "dw_permeability_r"
  THEN Stale(a.nB, 1, a.nEP, a.nEP, s)
  ELSE Stale(a.nB, 1, a.nEP, 1, s)

ScratchNames ==
  {"gtg", "gtgu", "dgp2", "gp1tdgp2", "gtd", "gtdg", "dgp", "gtdgp", "gp",
   "st", "aux1", "aux2", "aux3", "aux4", "ntdgp"}

(***************************************************************************)
(* The state of one call.                                                  *)
(***************************************************************************)
VARIABLES
  args,      \* the arguments; args.coef.cell is the coefficient's cursor
  out,       \* the output buffer
  ii,        \* the cell loop's index
  pc,        \* "call", "loop", "reduce" (dw_laplace), "end", "done"
  ret,       \* the status the call returns
  g_error,   \* the error flag errput raises and ERR_CheckGo reads
  allocd,    \* scratch buffers created by this call
  freed,     \* how many times each scratch buffer was released
  scr,       \* dw_laplace's scratch buffer (gtg or gtgu)
  mem,       \* what memory the call never wrote reads as
  outWrites  \* number of stores of a result into the output buffer

vars == <<args, out, ii, pc, ret, g_error, allocd, freed, scr, mem, outWrites>>

Init ==
  /\ args \in EvaluatorCalls \cup KernelCalls
  /\ out = Out0(args, 0)
  /\ ii = 0
  /\ pc = "call"
  /\ ret = RET_OK
  /\ g_error = 0
  /\ allocd = {}
  /\ freed = [b \in ScratchNames |-> 0]
  /\ scr = NilField
  /\ mem \in IF args.fn \in {"dw_laplace", "d_diffusion_coupling", "d_surface_flux"}
             THEN GarbageVals ELSE {0}
  /\ outWrites = 0

\* The declarations and fmf_createAlloc calls before the loop.
Enter(fn, names) ==
  /\ pc = "call"
  /\ args.fn = fn
  /\ allocd' = names
  /\ scr' = IF fn = "dw_laplace" THEN dw_laplace_scratch(args, mem) ELSE scr
  /\ pc' = IF 0 < args.nB THEN "loop" ELSE "end"
  /\ UNCHANGED <<args, out, ii, ret, g_error, freed, mem, outWrites>>

\* ERR_CheckGo( ret ), then ii++ and the loop test.
CheckGo(err) ==
  /\ g_error' = IF err # 0 THEN 1 ELSE g_error
  /\ IF g_error' # 0
     THEN ret' = RET_Fail /\ pc' = "end" /\ ii' = ii
     ELSE /\ ret' = ret
          /\ ii' = ii + 1
          /\ pc' = IF ii + 1 < args.nB THEN "loop" ELSE "end"

\* One pass of a cell loop with result r.
Iterate(fn, r, stores) ==
  /\ pc = "loop"
  /\ args.fn = fn
  /\ out' = r.out
  /\ args' = [args EXCEPT !.coef = r.coef]
  /\ outWrites' = outWrites + stores
  /\ CheckGo(r.err)
  /\ UNCHANGED <<allocd, freed, scr, mem>>

\* end_label: the fmf_freeDestroy calls and the return.
Leave(fn, list) ==
  /\ pc = "end"
  /\ args.fn = fn
  /\ freed' = [b \in ScratchNames |->
                 freed[b] + Cardinality({i \in DOMAIN list : list[i] = b})]
  /\ pc' = "done"
  /\ UNCHANGED <<args, out, ii, ret, g_error, allocd, scr, mem, outWrites>>

dw_laplace_enter == Enter("dw_laplace", dw_laplace_alloc(args))
dw_laplace_build ==
  /\ pc = "loop"
  /\ args.fn = "dw_laplace"
  /\ LET k == dw_laplace_kernel(out, args, ii, scr)
     IN /\ out' = k.out
        /\ scr' = k.scr
        /\ args' = [args EXCEPT !.coef = k.coef]
        /\ g_error' = IF k.err # 0 THEN 1 ELSE g_error
  /\ pc' = "reduce"
  /\ UNCHANGED <<ii, ret, allocd, freed, mem, outWrites>>
dw_laplace_sum ==
  /\ pc = "reduce"
  /\ args.fn = "dw_laplace"
  /\ out' = dw_laplace_reduce(out, args, ii, scr)
  /\ outWrites' = outWrites + 1
  /\ CheckGo(0)
  /\ UNCHANGED <<args, allocd, freed, scr, mem>>
dw_laplace_end == Leave("dw_laplace", dw_laplace_free(args))

d_laplace_enter == Enter("d_laplace", d_laplace_alloc(args))
d_laplace_cell == Iterate("d_laplace", d_laplace_iter(out, args, ii, mem), 1)
d_laplace_end == Leave("d_laplace", d_laplace_free(args))

dw_diffusion_enter == Enter("dw_diffusion", dw_diffusion_alloc(args))
dw_diffusion_cell == Iterate("dw_diffusion", dw_diffusion_iter(out, args, ii, mem), 1)
dw_diffusion_end == Leave("dw_diffusion", dw_diffusion_free(args))

d_diffusion_enter == Enter("d_diffusion", d_diffusion_alloc(args))
d_diffusion_cell == Iterate("d_diffusion", d_diffusion_iter(out, args, ii, mem), 1)
d_diffusion_end == Leave("d_diffusion", d_diffusion_free(args))

dw_permeability_r_enter == Enter("dw_permeability_r", dw_permeability_r_alloc(args))
dw_permeability_r_cell ==
  Iterate("dw_permeability_r", dw_permeability_r_iter(out, args, ii, mem), 1)
dw_permeability_r_end == Leave("dw_permeability_r", dw_permeability_r_free(args))

dw_diffusion_coupling_enter ==
  Enter("dw_diffusion_coupling", dw_diffusion_coupling_alloc(args))
dw_diffusion_coupling_cell ==
  Iterate("dw_diffusion_coupling", dw_diffusion_coupling_iter(out, args, ii, mem), 1)
dw_diffusion_coupling_end ==
  Leave("dw_diffusion_coupling", dw_diffusion_coupling_free(args))

d_diffusion_coupling_enter ==
  Enter("d_diffusion_coupling", d_diffusion_coupling_alloc(args))
d_diffusion_coupling_cell ==
  Iterate("d_diffusion_coupling", d_diffusion_coupling_iter(out, args, ii, mem), 1)
d_diffusion_coupling_end ==
  Leave("d_diffusion_coupling", d_diffusion_coupling_free(args))

d_surface_flux_enter == Enter("d_surface_flux", d_surface_flux_alloc(args))
d_surface_flux_cell ==
  Iterate("d_surface_flux", d_surface_flux_iter(out, args, ii, mem),
          IF args.mode = 1 THEN 2 ELSE 1)
d_surface_flux_end == Leave("d_surface_flux", d_surface_flux_free(args))

\* A direct call of a kernel builder on the buffers of args.  Only errput
\* touches the error flag: a builder that does not fault leaves it as it is.
KernelCall(fn, r) ==
  /\ pc = "call"
  /\ args.fn = fn
  /\ out' = r.out
  /\ ret' = r.ret
  /\ g_error' = IF r.err # 0 THEN 1 ELSE g_error
  /\ pc' = "done"
  /\ UNCHANGED <<args, ii, allocd, freed, scr, mem, outWrites>>

laplace_build_gtg_call ==
  KernelCall("laplace_build_gtg", laplace_build_gtg(out, args.bfGM))
laplace_act_g_m_call ==
  KernelCall("laplace_act_g_m", laplace_act_g_m(out, args.bfGM, args.mtx))

Next ==
  \/ dw_laplace_enter \/ dw_laplace_build \/ dw_laplace_sum \/ dw_laplace_end
  \/ d_laplace_enter \/ d_laplace_cell \/ d_laplace_end
  \/ dw_diffusion_enter \/ dw_diffusion_cell \/ dw_diffusion_end
  \/ d_diffusion_enter \/ d_diffusion_cell \/ d_diffusion_end
  \/ dw_permeability_r_enter \/ dw_permeability_r_cell \/ dw_permeability_r_end
  \/ dw_diffusion_coupling_enter \/ dw_diffusion_coupling_cell
  \/ dw_diffusion_coupling_end
  \/ d_diffusion_coupling_enter \/ d_diffusion_coupling_cell
  \/ d_diffusion_coupling_end
  \/ d_surface_flux_enter \/ d_surface_flux_cell \/ d_surface_flux_end
  \/ laplace_build_gtg_call \/ laplace_act_g_m_call

Spec == Init /\ [][Next]_vars

(***************************************************************************)
(* A whole call as a function of its arguments, the output buffer handed   *)
(* in and the content of unowned memory: the cell loop run to its end.     *)
(***************************************************************************)
IterOf(a, o, i, m) ==
  CASE a.fn = "dw_laplace" -> dw_laplace_iter(o, a, i, dw_laplace_scratch(a, m))
    [] a.fn = "d_laplace" -> d_laplace_iter(o, a, i, m)
    [] a.fn = "dw_diffusion" -> dw_diffusion_iter(o, a, i, m)
    [] a.fn = "d_diffusion" -> d_diffusion_iter(o, a, i, m)
    [] a.fn = "dw_permeability_r" -> dw_permeability_r_iter(o, a, i, m)
    [] a.fn = "dw_diffusion_coupling" -> dw_diffusion_coupling_iter(o, a, i, m)
    [] a.fn = "d_diffusion_coupling" -> d_diffusion_coupling_iter(o, a, i, m)
    [] a.fn = "d_surface_flux" -> d_surface_flux_iter(o, a, i, m)

RECURSIVE RunFrom(_, _, _, _)
RunFrom(a, o, i, m) ==
  IF i >= a.nB THEN [out |-> o, ret |-> RET_OK]
  ELSE LET r == IterOf(a, o, i, m)
       IN IF r.err # 0 THEN [out |-> r.out, ret |-> RET_Fail]
          ELSE RunFrom([a EXCEPT !.coef = r.coef], r.out, i + 1, m)

RunAll(a, o, m) == RunFrom([a EXCEPT !.coef.cell = 0], o, 0, m)

\* The call's one-cell coefficient copied into a buffer of one cell per
\* cell of the batch.
Replicated(a) ==
  [a EXCEPT !.coef = [a.coef EXCEPT !.nCell = a.nB, !.cell = 0,
                        !.val = [c \in 0..(a.nB - 1) |-> a.coef.val[0]]]]

Done == pc = "done"
Succeeded == pc = "done" /\ ret = RET_OK

\* Entry (d, k) of the basis gradient of cell c at level q, and the
\* coefficient cell the broadcast rule assigns to cell c.
Gat(a, c, q, d, k) == a.bfGM.val[c][(q * dimOf(a) + d) * nEPof(a) + k]
CoefCellOf(a, c) == IF a.coef.nCell > 1 THEN c ELSE 0

\* Sum_q det[c,q] * coef[cc,q] * (G^T G)[i,j] computed from the buffers.
LaplaceEntry(a, c, i, j) ==
  Sum([q \in 0..(nQPof(a) - 1) |->
         a.det.val[c][q] * a.coef.val[CoefCellOf(a, c)][q]
         * Sum([d \in 0..(dimOf(a) - 1) |-> Gat(a, c, q, d, i) * Gat(a, c, q, d, j)],
               dimOf(a))],
      nQPof(a))

LaplaceMatrixCall ==
  args.fn = "dw_laplace" /\ args.isDiff # 0 /\ dimOf(args) \in {2, 3}

\* C1: dw_laplace in matrix mode, G of 2 or 3 rows: every cell ii it has
\* processed holds Sum_q det[ii,q] * coef[c,q] * G[ii,q]^T G[ii,q], with
\* c = ii when coef has more than one cell and c = 0 otherwise.
C1_LaplaceMatrix ==
  (LaplaceMatrixCall /\ pc \in {"loop", "end", "done"}) =>
    \A c \in 0..(ii - 1) : \A i, j \in 0..(args.nEP - 1) :
      out.val[c][i * args.nEP + j] = LaplaceEntry(args, c, i, j)

\* The scenario of C1: one 3-D cell, 4 local dofs, one quadrature point,
\* determinant 1, coefficient 2, and the output 2 * G^T G, not all zero.
C1_Witness ==
  /\ LaplaceMatrixCall /\ Succeeded
  /\ dimOf(args) = 3 /\ args.nEP = 4 /\ nQPof(args) = 1 /\ args.nB = 1
  /\ args.det.val[0][0] = 1 /\ args.coef.val[0][0] = 2
  /\ \A i, j \in 0..3 :
       out.val[0][i * 4 + j]
         = 2 * Sum([d \in 0..2 |-> Gat(args, 0, 0, d, i) * Gat(args, 0, 0, d, j)], 3)
  /\ \E i \in 0..15 : out.val[0][i] # 0

\* C2: for every evaluator, a one-cell coefficient buffer is never
\* positioned onto a cell other than 0, and a successful call returns what
\* the call with the coefficient replicated into one cell per batch cell
\* returns.
C2_BroadcastEquivalence ==
  (args.fn \in Evaluators /\ args.coef.nCell = 1) =>
    /\ args.coef.cell = 0
    /\ Succeeded =>
         out.val = RunAll(Replicated(args), Out0(args, 0), mem).out.val

\* C3: laplace_build_gtg on a gradient of neither 2 nor 3 rows returns
\* the failure status and leaves the output buffer as it was.
C3_GtgFaultLeavesOutput ==
  (args.fn = "laplace_build_gtg" /\ Done /\ dimOf(args) \notin {2, 3}) =>
    /\ ret = RET_Fail
    /\ out = Out0(args, 0)

\* C4: laplace_act_g_m stores G[q] * M[q] row-major, dim x nCol per level:
\* out[q][d][c] = Sum_k G[q][d][k] * M[q][k][c], M[q] the q-th level of M
\* when M has as many levels as G and its current slice otherwise.
C4_ActGmIsProduct ==
  (args.fn = "laplace_act_g_m" /\ Done /\ dimOf(args) \in {2, 3}) =>
    \A q \in 0..(nQPof(args) - 1) : \A d \in 0..(dimOf(args) - 1) :
      \A c \in 0..(args.mtx.nCol - 1) :
        out.val[0][(q * dimOf(args) + d) * args.mtx.nCol + c]
          = Sum([k \in 0..(args.nEP - 1) |->
                   Gat(args, 0, q, d, k)
                   * args.mtx.val[0][(Lev(args.mtx, nQPof(args), q) * args.nEP + k)
                                       * args.mtx.nCol + c]],
                args.nEP)

\* C5: once a fault is raised in an evaluator's cell loop, nothing more is
\* stored into the output buffer, no further cell is begun, and the call
\* returns the failure status.
C5_FirstFaultWins ==
  [][(g_error # 0 /\ args.fn \in Evaluators) =>
       /\ outWrites' = outWrites
       /\ ii' = ii
       /\ pc' = "done" => ret' = RET_Fail]_vars

\* C6: every scratch buffer a call created is released exactly once by
\* the time it returns, on every exit path, and no buffer the call did not
\* create is ever released.
C6_ScratchReleasedOnce ==
  args.fn \in Evaluators =>
    \A b \in ScratchNames :
      /\ freed[b] <= 1
      /\ freed[b] = 1 => b \in allocd
      /\ Done => (b \in allocd => freed[b] = 1)

\* A call that aborted on a fault and returned with its scratch released.
C6_Witness ==
  /\ Done /\ ret = RET_Fail /\ args.fn \in Evaluators
  /\ allocd # {}
  /\ \A b \in allocd : freed[b] = 1

\* C7: after a successful call of any evaluator the output buffer is the
\* same whatever it held before the call: another call with the same
\* arguments and other stale content returns the same buffer.
C7_OutputOverwritten ==
  (args.fn \in Evaluators /\ Succeeded) =>
    \A s \in {1, 4} : \A m \in GarbageVals :
      out.val = RunAll(args, Out0(args, s), m).out.val

\* v^T K u for the nodal vectors of cell c, K a flat nEP x nEP matrix.
Bilinear(K, v, u, n) ==
  Sum([i \in 0..(n - 1) |->
         v[i] * Sum([j \in 0..(n - 1) |-> K[i * n + j] * u[j]], n)], n)

\* The matrix-mode call on the coefficient and geometry of call a.
MatrixCall(a) ==
  [a EXCEPT !.fn = IF a.fn = "d_laplace" THEN "dw_laplace" ELSE "dw_diffusion",
            !.isDiff = 1]

\* C8: d_laplace (d_diffusion) on gradP1 = G v, gradP2 = G u returns, for
\* every cell, v^T K u with K the matrix dw_laplace (dw_diffusion) writes
\* for that cell in matrix mode from the same coefficient and geometry.
C8_FunctionalMatrixConsistency ==
  (args.fn \in {"d_laplace", "d_diffusion"} /\ Succeeded) =>
    LET K == RunAll(MatrixCall(args), Out0(MatrixCall(args), 0), mem).out.val
    IN \A c \in 0..(args.nB - 1) :
         out.val[c][0] = Bilinear(K[c], NodalVec(args.vSel, c, args.nEP),
                                  NodalVec(args.uSel, c, args.nEP), args.nEP)

\* Both functionals returned over two cells, with non-zero values.
C8_Witness ==
  /\ args.fn \in {"d_laplace", "d_diffusion"} /\ Succeeded
  /\ args.nB = 2 /\ nQPof(args) = 2
  /\ out.val[0][0] # 0 /\ out.val[1][0] # 0 /\ out.val[0][0] # out.val[1][0]

\* C9: dw_diffusion_coupling in matrix mode: the matrix of every listed
\* element with mode > 0 is the transpose of its matrix with mode <= 0.
C9_CouplingTranspose ==
  (args.fn = "dw_diffusion_coupling" /\ args.isDiff # 0 /\ Succeeded) =>
    LET T == RunAll([args EXCEPT !.mode = 1 - args.mode], Out0(args, 0), mem).out.val
    IN \A c \in 0..(args.nB - 1) : \A i, j \in 0..(args.nEP - 1) :
         out.val[c][i * args.nEP + j] = T[c][j * args.nEP + i]

\* A coupling matrix with mode > 0 that is not symmetric.
C9_Witness ==
  /\ args.fn = "dw_diffusion_coupling" /\ args.isDiff # 0 /\ Succeeded
  /\ args.mode > 0 /\ args.nB = 2
  /\ \E i, j \in 0..(args.nEP - 1) :
       out.val[1][i * args.nEP + j] # out.val[1][j * args.nEP + i]

Symmetric(K, n) == \A i, j \in 0..(n - 1) : K[i * n + j] = K[j * n + i]
TestVecs(n) == [0..(n - 1) -> {-1, 0, 1}]
PosSemiDef(K, n) == \A x \in TestVecs(n) : Bilinear(K, x, x, n) >= 0
\* Every quadrature weight det * coef of cell c is non-negative.
WeightsNonNeg(a, c) ==
  \A q \in 0..(nQPof(a) - 1) :
    a.det.val[c][q] * a.coef.val[CoefCellOf(a, c)][q] >= 0

\* C10 as stated: the matrix dw_laplace writes per cell is symmetric and
\* positive semi-definite for any coefficient and determinant values.
C10_SymmetricPSD ==
  (LaplaceMatrixCall /\ Succeeded) =>
    \A c \in 0..(args.nB - 1) :
      Symmetric(out.val[c], args.nEP) /\ PosSemiDef(out.val[c], args.nEP)

\* C10 amended: the matrix dw_laplace writes per cell is symmetric for any
\* coefficient and determinant values, and positive semi-definite when
\* det * coef >= 0 at every quadrature point of the cell.
C10_SymmetricPSDNonNegWeights ==
  (LaplaceMatrixCall /\ Succeeded) =>
    \A c \in 0..(args.nB - 1) :
      /\ Symmetric(out.val[c], args.nEP)
      /\ WeightsNonNeg(args, c) => PosSemiDef(out.val[c], args.nEP)

\* Two cells written, one with non-negative weights and a non-zero matrix,
\* one with a negative weight.
C10_Witness ==
  /\ LaplaceMatrixCall /\ Succeeded /\ args.nB = 2
  /\ \E c \in 0..1 : WeightsNonNeg(args, c) /\ (\E i \in 0..(args.nEP - 1) :
                                                 out.val[c][i * args.nEP + i] > 0)
  /\ \E c \in 0..1 : ~WeightsNonNeg(args, c)

====
